---- MODULE Spec2Model ----
(***************************************************************************)
(* Model of src/main.py: a Telegram task logger.                           *)
(*                                                                         *)
(* One asyncio event loop runs two sources of activity:                    *)
(*   - the update dispatcher, which processes one update at a time         *)
(*     (Application.builder() leaves concurrent_updates off and every      *)
(*     handler is blocking), so at most one handler coroutine is in        *)
(*     flight;                                                             *)
(*   - the AsyncIOScheduler job send_daily_summary, a coroutine on the     *)
(*     same loop, which interleaves with a handler at every await.         *)
(* Code between two awaits is one atomic step.  Only the two deliveries    *)
(* to the channels (lines 90 and 126) are modelled as fallible awaits;     *)
(* replies to the reporter are recorded as sent.                           *)
(***************************************************************************)
EXTENDS Integers, Sequences, FiniteSets, TLC

\* ---------------------------------------------------------------- bounds
MaxDay == 2           \* last scheduler-timezone day the clock reaches
MaxTasks == 2         \* number of task descriptions receive_task handles
MaxLen == 3           \* longest day log handed to the renderer on its own

\* ------------------------------------------------------ program constants
ASKING_TASK == 0      \* line 37
END == -1             \* ConversationHandler.END, returned at lines 94, 99
JobHour == 23         \* line 155
JobMinute == 55       \* line 155
NL == 0               \* the '\n' character inside a message text (line 57)
MaxInstances == 1     \* add_job of line 155 leaves max_instances at its default

\* The (chat, user) keys ConversationHandler keeps a state for: two reporters.
Reporters == {1, 2}

\* Kinds of inbound update, as the handlers' filters tell them apart.
UpdateKinds == {"start", "settask", "cancel", "text", "other"}

\* Offsets (minutes) of the process's local timezone, which datetime.now()
\* uses, from the scheduler's timezone Asia/Kolkata: the same zone, or UTC.
LocalOffsets == {0, -330}

\* Minutes of the scheduler-timezone day at which something may happen:
\* 02:00 and the minute of the cron trigger, 23:55.
SlotMinutes == <<120, JobHour * 60 + JobMinute>>

VARIABLES
    now,            \* [day, slot]: the instant, in the scheduler's timezone
    tz,             \* local timezone offset from the scheduler's timezone
    tasks_storage,  \* line 34: day-key -> sequence of entries
    conv,           \* ConversationHandler state per reporter (END = none)
    handler,        \* the receive_task coroutine awaiting line 90, if any
    job,            \* the send_daily_summary coroutine awaiting line 126
    live,           \* the text last delivered to TEMP_CHANNEL_ID
    archive,        \* texts delivered to MAIN_CHANNEL_ID, in order
    last_reply,     \* the last reply_text sent: [to, text]
    job_errors,     \* day-keys whose job run raised (scheduler's log)
    lastFired,      \* last scheduler day whose 23:55 trigger was processed
    nTasks          \* number of task descriptions received so far

vars == <<now, tz, tasks_storage, conv, handler, job, live, archive,
          last_reply, job_errors, lastFired, nTasks>>

\* ------------------------------------------------------------- the clock
SchedMinute == SlotMinutes[now.slot]

\* datetime.now(): naive local time, as [day, minute].
LocalNow ==
    LET total == now.day * 1440 + SchedMinute + tz
    IN  [day |-> total \div 1440, minute |-> total % 1440]

\* strftime("%Y-%m-%d") of local day number o; day 0 is 2025-12-30.
FormatDate(o) ==
    IF o <= 1 THEN <<2025, 12, 30 + o>> ELSE <<2026, 1, o - 1>>

\* strftime("%I:%M %p") of minute-of-day m.
FormatTime(m) ==
    LET h == m \div 60
    IN  [hhmm |-> <<IF h % 12 = 0 THEN 12 ELSE h % 12, m % 60>>,
         p    |-> IF h < 12 THEN "AM" ELSE "PM"]

NoTime == [hhmm |-> <<>>, p |-> ""]

\* ----------------------------------------------------------- the renderer
\* str.split('\n') of a text (a sequence of characters, NL the line break).
RECURSIVE Split(_)
Split(text) ==
    IF \A i \in 1..Len(text) : text[i] # NL
    THEN <<text>>
    ELSE LET k == CHOOSE i \in 1..Len(text) :
                      text[i] = NL /\ \A j \in 1..(i-1) : text[j] # NL
         IN  <<SubSeq(text, 1, k - 1)>> \o Split(SubSeq(text, k + 1, Len(text)))

Line(glyph, date, time, body) ==
    [glyph |-> glyph, date |-> date, time |-> time, body |-> body]

\* tasks_storage.get(day_str, []) : the value read (line 42).
StorageGet(store, day_str) ==
    IF day_str \in DOMAIN store THEN store[day_str] ELSE <<>>

\* Mutant of StorageAfterGet: the read indexes the defaultdict, which inserts
\* an empty list for an absent key.
StorageAfterGet_Insert(store, day_str) ==
    [d \in DOMAIN store \cup {day_str} |->
        IF d \in DOMAIN store THEN store[d] ELSE <<>>]

\* The store after tasks_storage.get(day_str, []): dict.get never inserts.
StorageAfterGet(store, day_str) == store

\* The two branch glyphs of line 54, written in ASCII: the terminal branch
\* (the box-drawing corner) and the continuation branch (the box-drawing tee).
TerminalGlyph == "L-"
ContinuationGlyph == "|-"

\* Mutant of TaskBlock: the first entry, not the last, gets the terminal glyph.
TaskBlock_FirstTerminal(tasks, i) ==
    LET prefix == IF i = 1 THEN TerminalGlyph ELSE ContinuationGlyph
        lines  == Split(tasks[i].task)
    IN  <<Line(prefix, <<>>, tasks[i].time, lines[1])>>
        \o [k \in 1..(Len(lines) - 1) |->
                Line(" |                     ", <<>>, NoTime, lines[k + 1])]

\* Mutant of TaskBlock: only the first line of a description is emitted.
TaskBlock_FirstLineOnly(tasks, i) ==
    LET prefix == IF i = Len(tasks) THEN TerminalGlyph ELSE ContinuationGlyph
        lines  == Split(tasks[i].task)
    IN  <<Line(prefix, <<>>, tasks[i].time, lines[1])>>

\* Lines 49-62 for the entry at index i of tasks.
TaskBlock(tasks, i) ==
    LET prefix == IF i = Len(tasks) THEN TerminalGlyph ELSE ContinuationGlyph
        lines  == Split(tasks[i].task)
    IN  <<Line(prefix, <<>>, tasks[i].time, lines[1])>>
        \o [k \in 1..(Len(lines) - 1) |->
                Line(" |                     ", <<>>, NoTime, lines[k + 1])]

RECURSIVE TaskLines(_, _)
TaskLines(tasks, i) ==
    IF i > Len(tasks) THEN <<>>
    ELSE TaskBlock(tasks, i) \o TaskLines(tasks, i + 1)

\* format_tasks_for_day: the text, as its sequence of lines.
format_tasks_for_day(store, day_str) ==
    LET tasks == StorageGet(store, day_str)
    IN  IF tasks = <<>>
        THEN <<Line("Date: ", day_str, NoTime, <<>>),
               Line("", <<>>, NoTime, <<>>),
               Line("No tasks recorded.", <<>>, NoTime, <<>>)>>
        ELSE <<Line("Date : ", day_str, NoTime, <<>>),
               Line(" |", <<>>, NoTime, <<>>)>>
             \o TaskLines(tasks, 1)

\* -------------------------------------------------------------- the store
\* Mutant of StorageAppend: the entry is inserted at the front.
StorageAppend_Prepend(store, day_str, entry) ==
    [d \in DOMAIN store \cup {day_str} |->
        IF d = day_str THEN <<entry>> \o StorageGet(store, d) ELSE store[d]]

\* tasks_storage[current_date].append(entry) on the defaultdict (line 87).
StorageAppend(store, day_str, entry) ==
    [d \in DOMAIN store \cup {day_str} |->
        IF d = day_str THEN StorageGet(store, d) \o <<entry>> ELSE store[d]]

\* Mutant of StorageDel: the day is left in the store.
StorageDel_Keep(store, day_str) == store

\* Mutant of StorageDel: the day's list is emptied, its key kept.
StorageDel_Clear(store, day_str) ==
    [d \in DOMAIN store |-> IF d = day_str THEN <<>> ELSE store[d]]

\* del tasks_storage[today_str] (line 128).
StorageDel(store, day_str) ==
    [d \in DOMAIN store \ {day_str} |-> store[d]]

\* ----------------------------------------------------------- the dispatch
\* Mutant of HandlerFor: the state's handler lacks the ~filters.COMMAND part,
\* so a command sent while a description is awaited is taken as one.
HandlerFor_NoCommandFilter(state, kind) ==
    IF kind = "start" THEN "start"
    ELSE IF state = END
         THEN IF kind = "settask" THEN "settask_start" ELSE "none"
    ELSE IF kind \in {"text", "settask", "cancel"} THEN "receive_task"
    ELSE "none"

\* Which handler main() routes an update of `kind` to, for a reporter whose
\* conversation is in `state` (lines 171-182): handlers of one group are
\* tried in registration order and the first that matches handles it.  A
\* conversation that is not under way matches its entry points only; one
\* that is under way matches its state's handlers, then its fallbacks.
HandlerFor(state, kind) ==
    IF kind = "start" THEN "start"
    ELSE IF state = END
         THEN IF kind = "settask" THEN "settask_start" ELSE "none"
    ELSE IF kind = "text" THEN "receive_task"
    ELSE IF kind = "cancel" THEN "cancel"
    ELSE "none"

\* The description the n-th task message carries: every description is
\* distinct, and every second one has two lines.
Texts(n) == {IF n % 2 = 0 THEN <<n, NL, n + 10>> ELSE <<n>>}

NoHandler == [pc |-> "idle", r |-> 0, kind |-> "", date |-> <<>>,
              time |-> NoTime, task |-> <<>>, text |-> <<>>]
NoJob == [pc |-> "idle", today_str |-> <<>>, text |-> <<>>]
NoReply == [to |-> 0, text |-> ""]
Reply(r, text) == [to |-> r, text |-> text]

Init ==
    /\ now = [day |-> 1, slot |-> 1]
    /\ tz \in LocalOffsets
    /\ tasks_storage = <<>>
    /\ conv = [r \in Reporters |-> END]
    /\ handler = NoHandler
    /\ job = NoJob
    /\ live = <<>>
    /\ archive = <<>>
    /\ last_reply = NoReply
    /\ job_errors = {}
    /\ lastFired = 0
    /\ nTasks = 0

\* ------------------------------------------------------------ the handlers
\* The dispatcher takes the next update only when no handler is in flight,
\* and hands it to the handler HandlerFor names.
Dispatch(r, kind, name) ==
    /\ handler.pc = "idle"
    /\ HandlerFor(conv[r], kind) = name

\* start (lines 67-69).
Start(r) ==
    /\ \E kind \in UpdateKinds : Dispatch(r, kind, "start")
    /\ last_reply' = Reply(r, "Hi! I am your daily task tracker.")
    /\ UNCHANGED <<now, tz, tasks_storage, conv, handler, job, live, archive,
                   job_errors, lastFired, nTasks>>

\* settask_start (lines 71-77).
SettaskStart(r) ==
    /\ \E kind \in UpdateKinds : Dispatch(r, kind, "settask_start")
    /\ last_reply' = Reply(r, "What task are you starting now?")
    /\ conv' = [conv EXCEPT ![r] = ASKING_TASK]
    /\ UNCHANGED <<now, tz, tasks_storage, handler, job, live, archive,
                   job_errors, lastFired, nTasks>>

\* Mutant of CancelResult: cancel leaves the conversation where it was.
CancelResult_Stay == ASKING_TASK

\* The conversation state cancel returns (line 99).
CancelResult == END

\* The store after cancel has run (lines 96-99 do not touch it).
StorageAfterCancel(store) == store

\* cancel (lines 96-99).
Cancel(r) ==
    /\ \E kind \in UpdateKinds : Dispatch(r, kind, "cancel")
    /\ last_reply' = Reply(r, "Operation cancelled.")
    /\ conv' = [conv EXCEPT ![r] = CancelResult]
    /\ tasks_storage' = StorageAfterCancel(tasks_storage)
    /\ UNCHANGED <<now, tz, handler, job, live, archive,
                   job_errors, lastFired, nTasks>>

\* An update no registered handler matches is dropped.
Unhandled(r) ==
    /\ \E kind \in UpdateKinds : Dispatch(r, kind, "none")
    /\ UNCHANGED vars

\* Mutant of StoreRendered: the text is rendered from the store as it was
\* before the append.
StoreRendered_Stale(before, after) == before

\* The store line 89 renders, given the store before and after line 87: no
\* await separates the two lines, so it is the store the append left.
StoreRendered(before, after) == after

\* receive_task up to its first await (lines 81-90): stamp, append, render,
\* and start the delivery to the live channel.
ReceiveTask(r) ==
    \E kind \in UpdateKinds, text \in Texts(nTasks + 1) :
        LET current_time == FormatTime(LocalNow.minute)
            current_date == FormatDate(LocalNow.day)
            stored == StorageAppend(tasks_storage, current_date,
                                    [time |-> current_time, task |-> text])
        IN  /\ Dispatch(r, kind, "receive_task")
            /\ nTasks < MaxTasks
            /\ nTasks' = nTasks + 1
            /\ tasks_storage' = StorageAfterGet(stored, current_date)
            /\ handler' = [pc |-> "await_live", r |-> r, kind |-> kind,
                           date |-> current_date, time |-> current_time,
                           task |-> text,
                           text |-> format_tasks_for_day(
                                        StoreRendered(tasks_storage, stored),
                                        current_date)]
            /\ UNCHANGED <<now, tz, conv, job, live, archive, last_reply,
                           job_errors, lastFired>>

\* Line 90 returned: lines 92-94 acknowledge and end the conversation.
LiveDelivered ==
    /\ handler.pc = "await_live"
    /\ live' = handler.text
    /\ last_reply' = Reply(handler.r, "Task added and log updated!")
    /\ conv' = [conv EXCEPT ![handler.r] = END]
    /\ handler' = NoHandler
    /\ UNCHANGED <<now, tz, tasks_storage, job, archive,
                   job_errors, lastFired, nTasks>>

\* Mutant of StorageAfterLiveFailure: the failed delivery undoes the append.
StorageAfterLiveFailure_Rollback(store, day_str) ==
    IF day_str \in DOMAIN store
    THEN [store EXCEPT ![day_str] = SubSeq(@, 1, Len(@) - 1)]
    ELSE store

\* The store once line 90 has raised: nothing catches the exception and
\* nothing undoes line 87.
StorageAfterLiveFailure(store, day_str) == store

\* The conversation state once receive_task has raised: lines 92-94 are not
\* reached, and ConversationHandler keeps the state of a handler that raises.
ConvAfterLiveFailure(state) == state

\* The last reply once receive_task has raised: line 92 is not reached and
\* error_handler (lines 133-149) only logs, so reporter r is sent nothing.
ReplyAfterLiveFailure(r, reply) == reply

\* Line 90 raised: the exception leaves receive_task and reaches error_handler.
LiveFailed ==
    /\ handler.pc = "await_live"
    /\ tasks_storage' = StorageAfterLiveFailure(tasks_storage, handler.date)
    /\ conv' = [conv EXCEPT ![handler.r] = ConvAfterLiveFailure(@)]
    /\ last_reply' = ReplyAfterLiveFailure(handler.r, last_reply)
    /\ handler' = NoHandler
    /\ UNCHANGED <<now, tz, job, live, archive, job_errors, lastFired, nTasks>>

\* ------------------------------------------------------------ the flush job
\* The cron trigger of line 155 is due: 23:55 in the scheduler's timezone,
\* not yet processed for this day.
TriggerDue ==
    /\ SchedMinute = JobHour * 60 + JobMinute
    /\ lastFired < now.day

\* Mutant of StorageAfterContains: the test indexes the defaultdict, which
\* inserts an empty list for an absent key.
StorageAfterContains_Insert(store, day_str) ==
    [d \in DOMAIN store \cup {day_str} |-> StorageGet(store, d)]

\* The store after the membership test of line 123: `in` never inserts.
StorageAfterContains(store, day_str) == store

\* Mutant of HasTasks: the job renders and sends whatever the store holds.
HasTasks_Always(store, day_str) == TRUE

\* The test of line 123.
HasTasks(store, day_str) == day_str \in DOMAIN store

\* The number of runs of the job in flight.
Running == IF job.pc = "idle" THEN 0 ELSE 1

\* Mutant of CanStart: the scheduler starts a run whatever is in flight.
CanStart_Always(running) == TRUE

\* Whether the scheduler starts a run of the job when its trigger is due.
CanStart(running) == running < MaxInstances

\* send_daily_summary up to its await (lines 121-126), or all of it when the
\* day-key is absent (line 130).
SendDailySummary ==
    LET today_str == FormatDate(LocalNow.day)
    IN  /\ TriggerDue
        /\ CanStart(Running)
        /\ lastFired' = now.day
        /\ IF HasTasks(tasks_storage, today_str)
           THEN /\ job' = [pc |-> "await_archive", today_str |-> today_str,
                           text |-> format_tasks_for_day(tasks_storage, today_str)]
                /\ tasks_storage' = StorageAfterGet(tasks_storage, today_str)
           ELSE /\ job' = job
                /\ tasks_storage' = StorageAfterContains(tasks_storage, today_str)
        /\ UNCHANGED <<now, tz, conv, handler, live, archive, last_reply,
                       job_errors, nTasks>>

\* The trigger is due while the previous run still awaits its delivery: the
\* scheduler (max_instances 1, the default of add_job) skips this run.
TriggerSkipped ==
    /\ TriggerDue
    /\ ~CanStart(Running)
    /\ lastFired' = now.day
    /\ UNCHANGED <<now, tz, tasks_storage, conv, handler, job, live, archive,
                   last_reply, job_errors, nTasks>>

\* Line 126 returned: line 128 deletes the day.
ArchiveDelivered ==
    /\ job.pc = "await_archive"
    /\ archive' = Append(archive, job.text)
    /\ tasks_storage' = StorageDel(tasks_storage, job.today_str)
    /\ job' = NoJob
    /\ UNCHANGED <<now, tz, conv, handler, live, last_reply,
                   job_errors, lastFired, nTasks>>

\* Mutant of StorageAfterArchiveFailure: the day is deleted whether or not
\* the delivery succeeded.
StorageAfterArchiveFailure_Delete(store, day_str) ==
    [d \in DOMAIN store \ {day_str} |-> store[d]]

\* The store once line 126 has raised: line 128 is not reached.
StorageAfterArchiveFailure(store, day_str) == store

\* Line 126 raised: the exception leaves the job and the scheduler logs it.
ArchiveFailed ==
    /\ job.pc = "await_archive"
    /\ tasks_storage' = StorageAfterArchiveFailure(tasks_storage, job.today_str)
    /\ job_errors' = job_errors \cup {job.today_str}
    /\ job' = NoJob
    /\ UNCHANGED <<now, tz, conv, handler, live, archive, last_reply,
                   lastFired, nTasks>>

\* Time passes to the next instant; a due trigger is processed first.
Tick ==
    /\ ~TriggerDue
    /\ IF now.slot < Len(SlotMinutes)
       THEN now' = [now EXCEPT !.slot = @ + 1]
       ELSE /\ now.day < MaxDay
            /\ now' = [day |-> now.day + 1, slot |-> 1]
    /\ UNCHANGED <<tz, tasks_storage, conv, handler, job, live, archive,
                   last_reply, job_errors, lastFired, nTasks>>

Next ==
    \/ \E r \in Reporters : Start(r)
    \/ \E r \in Reporters : SettaskStart(r)
    \/ \E r \in Reporters : Cancel(r)
    \/ \E r \in Reporters : Unhandled(r)
    \/ \E r \in Reporters : ReceiveTask(r)
    \/ LiveDelivered
    \/ LiveFailed
    \/ SendDailySummary
    \/ TriggerSkipped
    \/ ArchiveDelivered
    \/ ArchiveFailed
    \/ Tick

Spec == Init /\ [][Next]_vars

\* ------------------------------------------------- the renderer on its own
\* Descriptions with no, one and two line breaks, one with an empty line.
RenderTasks == {<<1>>, <<1, NL, 2>>, <<1, NL, 2, NL, 3>>, <<1, NL, NL, 2>>}

\* Entries as line 87 builds them, stamped 09:00 AM or 11:30 PM.
RenderEntries ==
    {[time |-> FormatTime(m), task |-> t] : m \in {540, 1410}, t \in RenderTasks}

\* The day logs of one to MaxLen entries.
RenderLogs ==
    UNION {[1..n -> RenderEntries] : n \in 1..MaxLen}

\* A day that may be stored, and a day that never is.
RenderDays == {FormatDate(1), FormatDate(2)}

\* The store holds nothing, or one day's log.
RenderInit ==
    /\ now = [day |-> 1, slot |-> 1]
    /\ tz = 0
    /\ \/ tasks_storage = <<>>
       \/ \E log \in RenderLogs :
             tasks_storage = [d \in {FormatDate(1)} |-> log]
    /\ conv = [r \in Reporters |-> END]
    /\ handler = NoHandler
    /\ job = NoJob
    /\ live = <<>>
    /\ archive = <<>>
    /\ last_reply = NoReply
    /\ job_errors = {}
    /\ lastFired = 0
    /\ nTasks = 0

\* One call format_tasks_for_day(day_str); job records the day and the text.
Render(day_str) ==
    /\ job.pc = "idle"
    /\ job' = [pc |-> "rendered", today_str |-> day_str,
               text |-> format_tasks_for_day(tasks_storage, day_str)]
    /\ tasks_storage' = StorageAfterGet(tasks_storage, day_str)
    /\ UNCHANGED <<now, tz, conv, handler, live, archive, last_reply,
                   job_errors, lastFired, nTasks>>

RenderNext == \E day_str \in RenderDays : Render(day_str)

SpecRender == RenderInit /\ [][RenderNext]_vars

\* ================================================================= claims
\* The entries of a day log, as a set.
EntriesOf(log) == {log[i] : i \in 1..Len(log)}

\* Entry e has a block in the rendered text: a branch line carrying its
\* display time and the first line of its description.
TextIncludes(text, e) ==
    \E i \in 1..Len(text) :
        /\ text[i].glyph \in {TerminalGlyph, ContinuationGlyph}
        /\ text[i].time = e.time
        /\ text[i].body # <<>>
        /\ e.task # <<>>
        /\ text[i].body[1] = e.task[1]

IsPrefix(a, b) == Len(a) <= Len(b) /\ SubSeq(b, 1, Len(a)) = a

TotalEntries(store) ==
    Cardinality(UNION {{<<d, i>> : i \in 1..Len(store[d])} : d \in DOMAIN store})

\* Steps, told apart by what they do to the two coroutines and the channels.
ReceiveTaskStep == handler.pc = "idle" /\ handler'.pc = "await_live"
LiveFailedStep ==
    handler.pc = "await_live" /\ handler'.pc = "idle" /\ live' = live
ArchiveDeliveredStep ==
    job.pc = "await_archive" /\ job'.pc = "idle" /\ archive' = Append(archive, job.text)
ArchiveFailedStep ==
    job.pc = "await_archive" /\ job'.pc = "idle" /\ archive' = archive

\* The entry the receive_task coroutine h appended.
EntryOf(h) == [time |-> h.time, task |-> h.task]

\* C1: no entry leaves the store unless the text of the successful archive
\* delivery that removes it includes it; in particular an entry appended
\* while send_daily_summary awaits its delivery is not dropped by the removal.
C1_NoEntryDroppedByFlush ==
    [][\A d \in DOMAIN tasks_storage :
          \A e \in EntriesOf(tasks_storage[d]) :
              (d \notin DOMAIN tasks_storage' \/ e \notin EntriesOf(tasks_storage'[d]))
              => /\ archive' # archive
                 /\ TextIncludes(archive'[Len(archive')], e)]_vars

\* C2 as stated: once the live delivery of receive_task has failed, the day's
\* log is in the store and its last element is the entry just appended.
C2_EntryLastAfterFailedDelivery ==
    [][LiveFailedStep =>
          /\ handler.date \in DOMAIN tasks_storage'
          /\ tasks_storage'[handler.date] # <<>>
          /\ tasks_storage'[handler.date][Len(tasks_storage'[handler.date])]
                 = EntryOf(handler)]_vars

\* C2 amended: the append precedes the delivery attempt (the entry is the last
\* element of its day's log when the await begins), and a failure of the
\* delivery leaves the store exactly as it was: the day's log, unless a flush
\* removed it while the delivery was pending, still ends with the new entry.
C2_FailedDeliveryKeepsStore ==
    [][/\ ReceiveTaskStep =>
            /\ handler'.date \in DOMAIN tasks_storage'
            /\ tasks_storage'[handler'.date][Len(tasks_storage'[handler'.date])]
                   = EntryOf(handler')
       /\ LiveFailedStep =>
            /\ tasks_storage' = tasks_storage
            /\ handler.date \in DOMAIN tasks_storage' =>
                   tasks_storage'[handler.date][Len(tasks_storage'[handler.date])]
                       = EntryOf(handler)]_vars

\* A receive_task has failed to deliver (nothing was ever delivered to the
\* live channel) and its entry is still stored.
C2_Witness ==
    /\ handler.pc = "idle"
    /\ nTasks >= 1
    /\ live = <<>>
    /\ \E d \in DOMAIN tasks_storage : Len(tasks_storage[d]) >= 1

\* C3: a day log is removed, or loses or reorders entries, only in the step
\* that completes a successful archive delivery for that day; the step in
\* which the archive delivery fails leaves the day in the store, unchanged.
C3_RemovedOnlyBySuccessfulFlush ==
    [][/\ \A d \in DOMAIN tasks_storage :
            (d \notin DOMAIN tasks_storage'
                \/ ~IsPrefix(tasks_storage[d], tasks_storage'[d]))
            => ArchiveDeliveredStep /\ job.today_str = d
       /\ ArchiveFailedStep =>
            /\ job.today_str \in DOMAIN tasks_storage'
            /\ tasks_storage' = tasks_storage]_vars

\* A flush has failed for a day whose log is still in the store.
C3_Witness ==
    /\ job.pc = "idle"
    /\ \E d \in job_errors : d \in DOMAIN tasks_storage

\* C4: once a flush has failed for day d, a later firing whose delivery
\* succeeds archives d's retained entries and removes d from the store.
C4_LaterFlushArchivesRetainedDay ==
    [][ArchiveDeliveredStep =>
          \A d \in job_errors : d \notin DOMAIN tasks_storage']_vars

\* C5: when the live delivery of receive_task fails, the reporter is sent a
\* reply reporting it and the reporter's conversation ends.
C5_FailureReportedAndConversationEnds ==
    [][LiveFailedStep =>
          /\ conv'[handler.r] = END
          /\ last_reply' # last_reply
          /\ last_reply'.to = handler.r]_vars

\* C6: no entry is in the text of two successful archive deliveries, and the
\* step that completes a successful archive delivery removes the day's log,
\* so that no later flush reads it.
C6_ArchivedAtMostOnce ==
    [][/\ ArchiveDeliveredStep => job.today_str \notin DOMAIN tasks_storage'
       /\ \A i, j \in 1..Len(archive') :
            i < j =>
              \A k \in 1..Len(archive'[i]) :
                  archive'[i][k].glyph \in {TerminalGlyph, ContinuationGlyph}
                  => ~TextIncludes(archive'[j],
                                   [time |-> archive'[i][k].time,
                                    task |-> archive'[i][k].body])]_vars

\* Two flushes have delivered, and entries are stored again.
C6_Witness ==
    /\ Len(archive) >= 2
    /\ job.pc = "idle"

\* C7: no day log in the store is empty; a key appears only through the
\* append of receive_task and disappears only through a successful flush.
C7_NoEmptyDayLog ==
    [][/\ \A d \in DOMAIN tasks_storage' : tasks_storage'[d] # <<>>
       /\ \A d \in DOMAIN tasks_storage' \ DOMAIN tasks_storage :
            ReceiveTaskStep /\ handler'.date = d
       /\ \A d \in DOMAIN tasks_storage \ DOMAIN tasks_storage' :
            ArchiveDeliveredStep /\ job.today_str = d]_vars

\* The flush job has run its membership test on an absent key (the trigger
\* of the day was processed, no run is pending, nothing was archived or
\* failed), and another day's log is in the store.
C7_Witness ==
    /\ lastFired >= 1
    /\ job.pc = "idle"
    /\ archive = <<>>
    /\ job_errors = {}
    /\ DOMAIN tasks_storage # {}

\* The minute of the day a display time names.
ParseTime(t) ==
    (t.hhmm[1] % 12) * 60 + t.hhmm[2] + (IF t.p = "PM" THEN 720 ELSE 0)

\* C8: an append puts the new entry, stamped with the local time of that
\* moment, at the end of its day's log and changes nothing else; until it is
\* flushed, a day's log only grows by extension at the end.
C8_AppendIsMonotonic ==
    [][/\ ReceiveTaskStep =>
            LET d == handler'.date
                old == IF d \in DOMAIN tasks_storage THEN tasks_storage[d] ELSE <<>>
            IN  /\ DOMAIN tasks_storage' = DOMAIN tasks_storage \cup {d}
                /\ tasks_storage'[d] = old \o <<EntryOf(handler')>>
                /\ ParseTime(handler'.time) = LocalNow.minute
                /\ \A o \in DOMAIN tasks_storage \ {d} :
                       tasks_storage'[o] = tasks_storage[o]
       /\ \A d \in DOMAIN tasks_storage \cap DOMAIN tasks_storage' :
            IsPrefix(tasks_storage[d], tasks_storage'[d])]_vars

\* A day's log holds two entries.
C8_Witness ==
    \E d \in DOMAIN tasks_storage : Len(tasks_storage[d]) >= 2

\* C9: the store gains entries only in a step that hands a plain text message
\* of a reporter whose conversation is in ASKING_TASK to receive_task, and
\* such a step adds exactly one entry.
C9_AppendOnlyOnAwaitedText ==
    [][/\ TotalEntries(tasks_storage') > TotalEntries(tasks_storage) =>
            /\ ReceiveTaskStep
            /\ handler'.kind = "text"
            /\ conv[handler'.r] = ASKING_TASK
       /\ ReceiveTaskStep =>
            TotalEntries(tasks_storage') = TotalEntries(tasks_storage) + 1]_vars

\* receive_task is handling a text message.
C9_Witness ==
    /\ handler.pc = "await_live"
    /\ handler.kind = "text"
    /\ conv[handler.r] = ASKING_TASK

\* C10: a step that ends a conversation without a handler in flight, or that
\* sends the cancellation acknowledgement, is the cancel handler at work on a
\* conversation in ASKING_TASK: it ends that conversation, acknowledges, and
\* leaves the store, both channels and both coroutines as they were.
C10_CancelEndsWithoutStoreChange ==
    [][\A r \in Reporters :
          (\/ handler.pc = "idle" /\ conv[r] = ASKING_TASK /\ conv'[r] # ASKING_TASK
           \/ last_reply' # last_reply
                /\ last_reply' = Reply(r, "Operation cancelled."))
          => /\ HandlerFor(conv[r], "cancel") = "cancel"
             /\ conv[r] = ASKING_TASK
             /\ conv'[r] = END
             /\ last_reply' = Reply(r, "Operation cancelled.")
             /\ tasks_storage' = tasks_storage
             /\ live' = live
             /\ archive' = archive
             /\ handler' = handler
             /\ job' = job]_vars

\* A conversation was cancelled while entries are stored.
C10_Witness ==
    /\ last_reply.text = "Operation cancelled."
    /\ conv[last_reply.to] = END
    /\ DOMAIN tasks_storage # {}

\* The step in which the trigger of the day starts a run of the flush job.
FlushStartsStep == lastFired' # lastFired /\ job.pc = "idle"

\* The days some archived text is the summary of.
ArchivedDays(texts) == {texts[i][1].date : i \in 1..Len(texts)}

\* C11: a run of send_daily_summary that starts while today's key is absent
\* attempts no archive delivery, raises no error, delivers nothing, and leaves
\* the store as it was: the key is not created.
C11_FlushOfAbsentDayDoesNothing ==
    [][(FlushStartsStep /\ FormatDate(LocalNow.day) \notin DOMAIN tasks_storage)
          => /\ job' = job
             /\ archive' = archive
             /\ live' = live
             /\ job_errors' = job_errors
             /\ tasks_storage' = tasks_storage]_vars

\* The trigger of the day has started a run although no task was ever
\* stored: nothing is pending, archived or stored.
C11_Witness ==
    /\ lastFired = now.day
    /\ nTasks = 0
    /\ job = NoJob
    /\ tasks_storage = <<>>
    /\ archive = <<>>

\* C12: the successful flush of day d leaves d absent from the store; an
\* append for a day that is absent, d after its flush included, creates a
\* log of exactly the new entry; and no entry stored under an archived day
\* is one of those its archived summary shows.
C12_FreshLogAfterFlush ==
    [][/\ ArchiveDeliveredStep => job.today_str \notin DOMAIN tasks_storage'
       /\ (ReceiveTaskStep /\ handler'.date \notin DOMAIN tasks_storage)
             => tasks_storage'[handler'.date] = <<EntryOf(handler')>>
       /\ \A i \in 1..Len(archive') :
             archive'[i][1].date \in DOMAIN tasks_storage'
             => \A e \in EntriesOf(tasks_storage'[archive'[i][1].date]) :
                    ~TextIncludes(archive'[i], e)]_vars

\* A day was flushed to the archive and then got a fresh log of one entry.
C12_Witness ==
    \E d \in ArchivedDays(archive) :
        /\ d \in DOMAIN tasks_storage
        /\ Len(tasks_storage[d]) = 1
        /\ nTasks = 2

\* A line of a rendered text that opens an entry's block.
IsBranch(l) == l.glyph \in {TerminalGlyph, ContinuationGlyph}

\* The block-opening lines of a rendered text, in order.
BranchLines(text) == SelectSeq(text, IsBranch)

\* The positions of the line breaks of a description.
Breaks(task) == {p \in 1..Len(task) : task[p] = NL}

\* A description up to its first line break.
FirstLineOf(task) ==
    IF Breaks(task) = {} THEN task
    ELSE SubSeq(task, 1, (CHOOSE p \in Breaks(task) :
                             \A q \in Breaks(task) : p <= q) - 1)

\* The lines of ls joined by line breaks.
RECURSIVE JoinLines(_)
JoinLines(ls) ==
    IF Len(ls) = 1 THEN ls[1] ELSE ls[1] \o <<NL>> \o JoinLines(Tail(ls))

\* Where the block of entry i begins in the rendered text of tasks, after the
\* two lines of the header, when every entry takes one line per line of its
\* description.
RECURSIVE BlockStart(_, _)
BlockStart(tasks, i) ==
    IF i = 1 THEN 3
    ELSE BlockStart(tasks, i - 1) + Cardinality(Breaks(tasks[i - 1].task)) + 1

\* C13: the rendering of a log of N >= 1 entries has N block-opening lines,
\* the i-th carrying the display time and first description line of the i-th
\* stored entry; the last of them, and no other, starts with the terminal
\* glyph, all the others with the continuation glyph.
C13_OneBlockPerEntryLastIsTerminal ==
    (job.pc = "rendered" /\ StorageGet(tasks_storage, job.today_str) # <<>>)
    => LET tasks == StorageGet(tasks_storage, job.today_str)
           B     == BranchLines(job.text)
       IN  /\ Len(B) = Len(tasks)
           /\ \A i \in 1..Len(tasks) :
                /\ B[i].time = tasks[i].time
                /\ B[i].body = FirstLineOf(tasks[i].task)
                /\ B[i].glyph = IF i = Len(tasks) THEN TerminalGlyph
                                                  ELSE ContinuationGlyph

\* A log of at least two entries was rendered.
C13_Witness ==
    /\ job.pc = "rendered"
    /\ Len(StorageGet(tasks_storage, job.today_str)) >= 2
    /\ Len(BranchLines(job.text)) >= 2

\* C14: an entry whose description has k line breaks takes k + 1 consecutive
\* lines of the rendering: the first carries the branch glyph and the display
\* time, the k that follow carry neither, and the k + 1 bodies joined by line
\* breaks are the description; the blocks follow the header with nothing
\* between or after them.
C14_MultiLineDescriptionKeepsItsLines ==
    (job.pc = "rendered" /\ StorageGet(tasks_storage, job.today_str) # <<>>)
    => LET tasks == StorageGet(tasks_storage, job.today_str)
           text  == job.text
       IN  /\ Len(text) = BlockStart(tasks, Len(tasks) + 1) - 1
           /\ \A i \in 1..Len(tasks) :
                LET s == BlockStart(tasks, i)
                    k == Cardinality(Breaks(tasks[i].task))
                IN  /\ s + k <= Len(text)
                    /\ IsBranch(text[s])
                    /\ text[s].time = tasks[i].time
                    /\ \A m \in 1..k :
                         ~IsBranch(text[s + m]) /\ text[s + m].time = NoTime
                    /\ JoinLines([m \in 1..(k + 1) |-> text[s + m - 1].body])
                           = tasks[i].task

\* A log with an entry of two line breaks, one of them ending an empty line,
\* was rendered.
C14_Witness ==
    /\ job.pc = "rendered"
    /\ \E e \in EntriesOf(StorageGet(tasks_storage, job.today_str)) :
           e.task = <<1, NL, NL, 2>>
    /\ \E i \in 1..Len(job.text) : job.text[i].body = <<>> /\ ~IsBranch(job.text[i])

\* C15: a call of format_tasks_for_day leaves the store as it was, whether
\* the day it renders is stored or absent: no key is added, none removed, no
\* log changed.
C15_RenderLeavesStore ==
    [][(job.pc = "idle" /\ job'.pc = "rendered")
          => tasks_storage' = tasks_storage]_vars

\* An absent day was rendered, as the "no tasks" message, beside a stored one.
C15_Witness ==
    /\ job.pc = "rendered"
    /\ job.today_str \notin DOMAIN tasks_storage
    /\ DOMAIN tasks_storage # {}
    /\ job.text[Len(job.text)].glyph = "No tasks recorded."

\* C16: the day key receive_task stores under, and the one a run of
\* send_daily_summary resolves, is the calendar date of the instant in the
\* time zone of the scheduler (the zone now.day counts days in), so that the
\* run of 23:55 of day D resolves the key D that day's tasks were stored
\* under.
C16_DayKeyIsDateInTimerZone ==
    [][/\ ReceiveTaskStep => handler'.date = FormatDate(now.day)
       /\ (FlushStartsStep /\ job'.pc = "await_archive")
             => job'.today_str = FormatDate(now.day)]_vars

\* C17: a trigger that comes due while a run of send_daily_summary is still
\* awaiting its archive delivery starts no second run: the pending run, its
\* day and its text stay as they are, nothing is delivered or removed, and a
\* run starts only when none is in flight.
C17_FlushNeverOverlapsItself ==
    [][/\ (lastFired' # lastFired /\ job.pc = "await_archive")
             => /\ job' = job
                /\ archive' = archive
                /\ tasks_storage' = tasks_storage
       /\ (job'.pc = "await_archive" /\ job' # job) => job.pc = "idle"]_vars

\* The trigger of a later day came due, and was dropped, while the run of an
\* earlier day is still awaiting its delivery.
C17_Witness ==
    /\ job.pc = "await_archive"
    /\ lastFired = now.day
    /\ job.today_str # FormatDate(LocalNow.day)

\* C18: the text receive_task hands to the live channel is rendered in the
\* step of its append, from the day's whole log as that append left it: one
\* block per stored entry, in stored order, the new entry's block last and
\* alone with the terminal glyph; and the text the live channel receives is
\* that text, whatever ran while the delivery was pending.
C18_LiveTextIsLogAfterOwnAppend ==
    [][/\ ReceiveTaskStep =>
            LET log == tasks_storage'[handler'.date]
                B   == BranchLines(handler'.text)
            IN  /\ handler'.text = format_tasks_for_day(tasks_storage', handler'.date)
                /\ handler'.text[1].date = handler'.date
                /\ Len(B) = Len(log)
                /\ \A i \in 1..Len(log) :
                     /\ B[i].time = log[i].time
                     /\ B[i].body = FirstLineOf(log[i].task)
                     /\ (B[i].glyph = TerminalGlyph) <=> (i = Len(log))
                /\ log[Len(log)] = EntryOf(handler')
       /\ live' # live => handler.pc = "await_live" /\ live' = handler.text]_vars

\* A receive_task awaits the delivery of a text of two blocks, rendered from
\* a log that already held an entry.
C18_Witness ==
    /\ handler.pc = "await_live"
    /\ Len(BranchLines(handler.text)) = 2
    /\ handler.date \in DOMAIN tasks_storage
    /\ Len(tasks_storage[handler.date]) = 2

====
